---- MODULE Spec2Model ----
(***************************************************************************)
(* Fast-withdraw server (src/server.py): the POST /withdraw handler and    *)
(* process_withdraw, the dual-signature transaction assembler.             *)
(*                                                                         *)
(* Numbers that the program handles as Python ints, Decimals and floats    *)
(* are far wider than TLC's integers, so they are kept as sequences of     *)
(* decimal digits, most significant first, without leading zeros           *)
(* (zero is <<0>>).                                                        *)
(***************************************************************************)
EXTENDS Integers, Sequences, FiniteSets, TLC

(* ------------------------------------------------------------------ *)
(* Arbitrary-precision naturals (Python int / Decimal coefficient).    *)
(* Every digit operation is written position by position, without      *)
(* recursion over the digits.                                          *)
(* ------------------------------------------------------------------ *)

\* Always TRUE. TLC computes v here, once, before any part of v is read.
Evaluated(v) == v = v

Zeros(n) == [i \in 1..n |-> 0]

\* a without its leading zeros
Norm(a) ==
    IF ~Evaluated(a) THEN a
    ELSE IF \A i \in 1..Len(a) : a[i] = 0 THEN <<0>>
    ELSE SubSeq(a, CHOOSE j \in 1..Len(a) :
                       a[j] # 0 /\ \A h \in 1..(j - 1) : a[h] = 0,
                Len(a))

IsZero(a) == a = <<0>>

\* -1, 0, 1 as a is below, equal to, above b (both without leading zeros)
BigCmp(a, b) ==
    IF Len(a) # Len(b) THEN (IF Len(a) < Len(b) THEN -1 ELSE 1)
    ELSE IF a = b THEN 0
    ELSE LET i == CHOOSE j \in 1..Len(a) :
                      /\ a[j] # b[j]
                      /\ \A h \in 1..(j - 1) : a[h] = b[h]
         IN  IF a[i] < b[i] THEN -1 ELSE 1

BigLe(a, b) == BigCmp(a, b) <= 0
BigLt(a, b) == BigCmp(a, b) < 0

\* digit i of a counted from the least significant end (1 = units), 0 beyond
DigitAt(a, i) == IF i <= Len(a) THEN a[Len(a) + 1 - i] ELSE 0

IsOdd(a) == DigitAt(a, 1) % 2 = 1

\* 2 * a: position i receives a carry exactly when the digit after it is >= 5
Double(a) ==
    IF ~Evaluated(a) THEN a
    ELSE (IF a[1] >= 5 THEN <<1>> ELSE <<>>)
         \o [i \in 1..Len(a) |->
               (2 * a[i] + (IF i < Len(a) /\ a[i + 1] >= 5 THEN 1 ELSE 0)) % 10]

\* floor(a / 2): position i takes over the remainder of the digit before it
Halve(a) ==
    IF ~Evaluated(a) THEN a
    ELSE Norm([i \in 1..Len(a) |->
                 (a[i] + (IF i > 1 /\ a[i - 1] % 2 = 1 THEN 10 ELSE 0)) \div 2])

\* a * 10^n
Shift10(a, n) == IF IsZero(a) THEN a ELSE a \o Zeros(n)

\* floor(a / 10^n)
Drop10(a, n) == IF n >= Len(a) THEN <<0>> ELSE SubSeq(a, 1, Len(a) - n)

\* a mod 10^n is zero
Divisible10(a, n) ==
    \A i \in 1..n : DigitAt(a, i) = 0

\* 5 * a = 10 * a / 2
Mul5(a) == Halve(Shift10(a, 1))

\* a + 1: the digits after the last one that is not 9 turn to 0
Inc(a) ==
    IF ~Evaluated(a) THEN a
    ELSE IF \A i \in 1..Len(a) : a[i] = 9 THEN <<1>> \o Zeros(Len(a))
    ELSE LET j == CHOOSE h \in 1..Len(a) :
                      a[h] # 9 /\ \A g \in (h + 1)..Len(a) : a[g] = 9
         IN  [i \in 1..Len(a) |->
                 IF i < j THEN a[i] ELSE IF i = j THEN a[i] + 1 ELSE 0]

\* a - 1 for a >= 1: the digits after the last one that is not 0 turn to 9
Dec1(a) ==
    IF ~Evaluated(a) THEN a
    ELSE LET j == CHOOSE h \in 1..Len(a) :
                      a[h] # 0 /\ \A g \in (h + 1)..Len(a) : a[g] = 0
         IN  Norm([i \in 1..Len(a) |->
                      IF i < j THEN a[i] ELSE IF i = j THEN a[i] - 1 ELSE 9])

Double4(a) == Double(Double(Double(Double(a))))
Mul5x4(a) == Mul5(Mul5(Mul5(Mul5(a))))

\* a * 2^n
RECURSIVE MulPow2(_, _)
MulPow2(a, n) ==
    IF ~Evaluated(a) \/ n = 0 THEN a
    ELSE IF n < 4 THEN MulPow2(Double(a), n - 1)
    ELSE MulPow2(Double4(a), n - 4)

\* a * 5^n
RECURSIVE MulPow5(_, _)
MulPow5(a, n) ==
    IF ~Evaluated(a) \/ n = 0 THEN a
    ELSE IF n < 4 THEN MulPow5(Mul5(a), n - 1)
    ELSE MulPow5(Mul5x4(a), n - 4)

(* ------------------------------------------------------------------ *)
(* Decimal numbers and IEEE-754 binary64 floats                        *)
(*   a decimal is [neg, coef, scale]  = (-1)^neg * coef / 10^scale     *)
(*   a float   is [neg, k, t]         = (-1)^neg * k / 2^t             *)
(*   with 2^52 <= k < 2^53 for a nonzero float (53-bit significand).   *)
(* The amounts the model draws are below 2^52, so t >= 0 throughout.   *)
(* ------------------------------------------------------------------ *)

MantissaBits == 53
DecimalPrec == 28

Two52 == MulPow2(<<1>>, MantissaBits - 1)
Two53 == MulPow2(<<1>>, MantissaBits)

Dec(neg, coef, scale) == [neg |-> neg, coef |-> coef, scale |-> scale]
Flt(neg, k, t) == [neg |-> neg, k |-> k, t |-> t]

\* the least t' >= t with n * 2^(t' - t) >= bound
RECURSIVE ScaleExp(_, _, _)
ScaleExp(n, bound, t) ==
    IF ~Evaluated(n) \/ BigLe(bound, n) THEN t
    ELSE IF BigLt(Double4(n), bound) THEN ScaleExp(Double4(n), bound, t + 4)
    ELSE ScaleExp(Double(n), bound, t + 1)

\* half of F, an integer and a half when F is odd, plus a further fraction
\* when sticky, rounded to the nearest integer, ties to even
RoundHalf(F, sticky) ==
    IF ~Evaluated(F) THEN F
    ELSE IF IsOdd(F) /\ (sticky \/ IsOdd(Halve(F))) THEN Inc(Halve(F))
    ELSE Halve(F)

\* twice / (2 * 10^scale) rounded to the nearest integer, ties to even
RoundQuotient(twice, scale) ==
    IF ~Evaluated(twice) THEN twice
    ELSE RoundHalf(Drop10(twice, scale), ~Divisible10(twice, scale))

\* the significand of coef / 10^scale at binary exponent t:
\* coef * 2^t / 10^scale rounded to the nearest integer, ties to even
Significand(coef, scale, t) == RoundQuotient(MulPow2(coef, t + 1), scale)

\* a significand that rounding carried up to 2^53 is 2^52 one exponent lower
Normal(neg, k, t) ==
    IF ~Evaluated(k) THEN k
    ELSE IF k = Two53 THEN Flt(neg, Two52, t - 1)
    ELSE Flt(neg, k, t)

FloatAt(x, t) == Normal(x.neg, Significand(x.coef, x.scale, t), t)

\* float(x) for a decimal x: the binary64 value nearest to x
float(x) ==
    IF IsZero(x.coef) THEN Flt(x.neg, <<0>>, 0)
    ELSE FloatAt(x, ScaleExp(x.coef, Shift10(Two52, x.scale), 0))

\* The multiples of 10^p in the rounding interval [L, H] of a float (closed
\* says whether the interval's ends round to the float) run from
\* LowMultiple * 10^p to HighMultiple * 10^p; there is none when
\* HighMultiple is below LowMultiple
LowMultiple(L, closed, p) ==
    IF Divisible10(L, p) /\ closed THEN Drop10(L, p) ELSE Inc(Drop10(L, p))

HighMultiple(H, closed, p) ==
    IF Divisible10(H, p) /\ ~closed THEN Dec1(Drop10(H, p)) ELSE Drop10(H, p)

HasMultiple(L, H, closed, p) ==
    /\ ~IsZero(Drop10(H, p))
    /\ BigLe(LowMultiple(L, closed, p), HighMultiple(H, closed, p))

\* the largest p with a multiple of 10^p in the interval: the decimals of
\* the interval with the fewest digits are its multiples of 10^p
ShortestExp(L, H, closed) ==
    CHOOSE q \in 0..Len(H) :
        /\ HasMultiple(L, H, closed, q)
        /\ \A r \in (q + 1)..Len(H) : ~HasMultiple(L, H, closed, r)

\* floor(D / 10^p) or the next integer, whichever is nearer to D / 10^p,
\* ties to the even one
RoundDrop10(D, p) ==
    IF /\ p > 0
       /\ \/ DigitAt(D, p) > 5
          \/ DigitAt(D, p) = 5 /\ (~Divisible10(D, p - 1) \/ IsOdd(Drop10(D, p)))
    THEN Inc(Drop10(D, p))
    ELSE Drop10(D, p)

Clamp(lo, q, hi) ==
    IF ~(Evaluated(lo) /\ Evaluated(q) /\ Evaluated(hi)) THEN q
    ELSE IF BigLt(q, lo) THEN lo ELSE IF BigLt(hi, q) THEN hi ELSE q

\* the multiple of 10^p in the interval that is nearest to D (ties to the
\* even one), as a quotient
Nearest(L, D, H, closed, p) ==
    Clamp(LowMultiple(L, closed, p), RoundDrop10(D, p), HighMultiple(H, closed, p))

\* the shortest decimal of the interval [L, H] / 10^n, the nearest to D / 10^n
ShortestIn(neg, closed, L, D, H, n) ==
    IF ~(Evaluated(L) /\ Evaluated(D) /\ Evaluated(H)) THEN D
    ELSE Dec(neg, Nearest(L, D, H, closed, ShortestExp(L, H, closed)),
             n - ShortestExp(L, H, closed))

\* With n = t + 2 the float k / 2^t and the ends of its rounding interval
\* are the integers D, L, H over 10^n; k4 is 4 * k, and the interval reaches
\* half as far down when k is a power of two
StrAt(f, k4, n) ==
    IF ~Evaluated(k4) THEN k4
    ELSE ShortestIn(f.neg, ~IsOdd(f.k),
                    MulPow5(IF f.k = Two52 THEN Dec1(k4) ELSE Dec1(Dec1(k4)), n),
                    MulPow5(k4, n),
                    MulPow5(Inc(Inc(k4)), n),
                    n)

\* str(f) for a float f: Python's repr, the shortest decimal string that
\* converts back to f, the nearest to f among the shortest (returned as the
\* decimal it denotes)
str(f) ==
    IF ~Evaluated(f) THEN f
    ELSE IF IsZero(f.k) THEN Dec(f.neg, <<0>>, 1)
    ELSE StrAt(f, Double(Double(f.k)), f.t + 2)

\* coef rounded half-even to at most prec significant digits
RoundPrec(coef, prec) ==
    IF Len(coef) <= prec THEN coef ELSE RoundDrop10(coef, Len(coef) - prec)

\* Decimal(s) * Decimal(10**6) in the default context (28 digits)
Decimal_mul_1e6(d) ==
    IF ~Evaluated(d) THEN d
    ELSE Dec(d.neg, RoundPrec(Shift10(d.coef, 6), DecimalPrec),
             IF Len(Shift10(d.coef, 6)) <= DecimalPrec THEN d.scale
             ELSE d.scale - (Len(Shift10(d.coef, 6)) - DecimalPrec))

\* int(d) for a decimal d >= 0: truncation toward zero
int(d) ==
    IF ~Evaluated(d) THEN d
    ELSE IF d.scale >= 0 THEN Drop10(d.coef, d.scale)
    ELSE Shift10(d.coef, 0 - d.scale)

\* line 99: int(Decimal(str(amount_usdc)) * Decimal(10**6))
usdc_int_of(amount_usdc) == int(Decimal_mul_1e6(str(amount_usdc)))

(* ------------------------------------------------------------------ *)
(* Text: a string is a sequence of one-character strings.              *)
(* ------------------------------------------------------------------ *)

HexDigits == <<"0", "1", "2", "3", "4", "5", "6", "7",
               "8", "9", "a", "b", "c", "d", "e", "f">>

UpperHex == <<"0", "1", "2", "3", "4", "5", "6", "7",
              "8", "9", "A", "B", "C", "D", "E", "F">>

\* the letters of the model's alphabet that str.lower changes
Uppercase == <<"A", "B", "C", "D", "E", "F", "G", "X">>
Lowercase == <<"a", "b", "c", "d", "e", "f", "g", "x">>

lower_char(c) ==
    IF \E i \in 1..Len(Uppercase) : Uppercase[i] = c
    THEN Lowercase[CHOOSE i \in 1..Len(Uppercase) : Uppercase[i] = c]
    ELSE c

\* str.lower()
lower(s) == [i \in 1..Len(s) |-> lower_char(s[i])]

\* str.removeprefix(prefix)
removeprefix(s, prefix) ==
    IF Len(s) >= Len(prefix) /\ SubSeq(s, 1, Len(prefix)) = prefix
    THEN SubSeq(s, Len(prefix) + 1, Len(s))
    ELSE s

IsHexChar(c) ==
    \E i \in 1..16 : HexDigits[i] = c \/ UpperHex[i] = c

HexVal(c) ==
    (CHOOSE i \in 1..16 : HexDigits[i] = c \/ UpperHex[i] = c) - 1

ValueError == "ValueError"

\* bytes.fromhex(s): pairs of hex digits, white space skipped between the
\* pairs; ValueError on any other character or on a digit without its pair
RECURSIVE fromhex_from(_, _, _)
fromhex_from(s, i, acc) ==
    IF i > Len(s) THEN acc
    ELSE IF s[i] = " " THEN fromhex_from(s, i + 1, acc)
    ELSE IF i = Len(s) \/ ~IsHexChar(s[i]) \/ ~IsHexChar(s[i + 1]) THEN ValueError
    ELSE fromhex_from(s, i + 2, Append(acc, 16 * HexVal(s[i]) + HexVal(s[i + 1])))

bytes_fromhex(s) == fromhex_from(s, 1, <<>>)

AddressLen == 20
MemoPad == 12

\* memo_list_of without the length check of line 94
memo_list_of_any_length(to) ==
    IF bytes_fromhex(removeprefix(lower(to), <<"0", "x">>)) = ValueError THEN ValueError
    ELSE bytes_fromhex(removeprefix(lower(to), <<"0", "x">>)) \o [i \in 1..MemoPad |-> 0]

\* memo_list_of without the lower() of line 92
memo_list_of_case_sensitive(to) ==
    LET addr_bytes == bytes_fromhex(removeprefix(to, <<"0", "x">>))
    IN  IF addr_bytes = ValueError THEN ValueError
        ELSE IF Len(addr_bytes) # AddressLen THEN ValueError
        ELSE addr_bytes \o [i \in 1..MemoPad |-> 0]

\* lines 92-96: the memo of the destination address text `to`, a list of 32
\* byte values, or ValueError
memo_list_of(to) ==
    LET addr_hex   == removeprefix(lower(to), <<"0", "x">>)
        addr_bytes == bytes_fromhex(addr_hex)
    IN  IF addr_bytes = ValueError THEN ValueError
        ELSE IF Len(addr_bytes) # AddressLen THEN ValueError
        ELSE addr_bytes \o [i \in 1..MemoPad |-> 0]

\* line 109: ''.join(format(b, '02x') for b in memo_list)
memo_hex_of(memo_list) ==
    [i \in 1..(2 * Len(memo_list)) |->
        IF i % 2 = 1 THEN HexDigits[(memo_list[(i + 1) \div 2] \div 16) + 1]
                     ELSE HexDigits[(memo_list[i \div 2] % 16) + 1]]

(* ------------------------------------------------------------------ *)
(* The canonical L1 message (lines 106-124)                            *)
(* ------------------------------------------------------------------ *)

\* n mod 16, from the last four decimal digits (16 divides 10^4)
Mod16(n) ==
    (1000 * DigitAt(n, 4) + 100 * DigitAt(n, 3) + 10 * DigitAt(n, 2) + DigitAt(n, 1)) % 16

Div16(n) == Halve(Halve(Halve(Halve(n))))

\* the last `width` hexadecimal digits of n, most significant first
RECURSIVE hex_low(_, _, _)
hex_low(n, width, acc) ==
    IF width = 0 THEN acc
    ELSE LET q == Div16(n)
         IN  IF Len(q) = 0 THEN acc
             ELSE hex_low(q, width - 1, <<HexDigits[Mod16(n) + 1]>> \o acc)

\* 2^64, one more than the mask 0xFFFFFFFFFFFFFFFF
Two64 == <<1, 8, 4, 4, 6, 7, 4, 4, 0, 7, 3, 7, 0, 9, 5, 5, 1, 6, 1, 6>>

HexWidth == 16

\* lines 106-107: format(n & 0xFFFFFFFFFFFFFFFF, '016x') for n >= 0: the
\* mask keeps the last 16 hexadecimal digits of n
\* hex16 without the mask: format(n, '016x') grows beyond 16 digits
hex16_unmasked(n) ==
    IF BigLt(n, Two64) THEN hex_low(n, HexWidth, <<>>) ELSE hex_low(n, HexWidth + 1, <<>>)

hex16(n) == hex_low(n, HexWidth, <<>>)

(* ------------------------------------------------------------------ *)
(* The server: POST /withdraw (withdraw) and process_withdraw            *)
(* ------------------------------------------------------------------ *)

None == "None"

\* the requests the server may be handling at the same time
Requests == {"r1", "r2"}

VARIABLES
    mainnet,    \* whether BASE_URL contains "mainnet" (line 24, line 111)
    pc,         \* pc[r]: where request r stands in withdraw / process_withdraw
    body,       \* body[r]: the JSON body of request r
    loc,        \* loc[r]: the local variables of withdraw and process_withdraw
    calls,      \* calls[r]: the calls made to the exchange for r, in order
    response    \* response[r]: the HTTP response of r, None until it is sent

vars == <<mainnet, pc, body, loc, calls, response>>

\* an exception: its class and its message; NoExc when none is raised
Exc(type, msg) == [type |-> type, msg |-> msg]
NoExc == Exc("None", "")

\* a local variable that is not bound yet: Unbound where its values are
\* sequences, NoRecord where they are records, None where they are strings
Unbound == <<>>
NoRecord == [bound |-> FALSE]

NoLocals ==
    [ amount |-> NoRecord, api_client |-> None, client |-> None,
      auth_token |-> Unbound, to_account |-> Unbound, fee |-> Unbound,
      nonce |-> Unbound, memo_list |-> Unbound, usdc_int |-> Unbound,
      l1_msg |-> NoRecord, l1_sig |-> NoRecord, temp_tx |-> Unbound,
      tx_info |-> NoRecord, result |-> NoRecord, exc |-> NoExc ]

\* json.JSONDecodeError is a subclass of ValueError
IsValueError(e) == e.type \in {"ValueError", "JSONDecodeError"}

\* a reply of the exchange to a raw call_api request (lines 68-72, 167-171):
\* no reply ("error": call_api or read raises), a body that is not JSON
\* ("garbage"), or a JSON object; code 0, message "" and to_account_index
\* <<>> stand for a key the object does not have
Reply(kind, code, message, to_account_index) ==
    [kind |-> kind, code |-> code, message |-> message,
     to_account_index |-> to_account_index]

\* the request bodies, replies and failures the model draws from
\* (indices, fees and nonces are Python ints: the Wide ones are 2^64 + 12,
\* 2^64 + 3, 2^64 + 7, 2^64 + 1000 and 2^64 + 42)
AccountIndex == <<1, 2>>
ApiKeyIndex == <<3>>
AccountIndexWide == <<1, 8, 4, 4, 6, 7, 4, 4, 0, 7, 3, 7, 0, 9, 5, 5, 1, 6, 2, 8>>
ApiKeyIndexWide == <<1, 8, 4, 4, 6, 7, 4, 4, 0, 7, 3, 7, 0, 9, 5, 5, 1, 6, 1, 9>>
PoolAccount == <<7>>
PoolAccountWide == <<1, 8, 4, 4, 6, 7, 4, 4, 0, 7, 3, 7, 0, 9, 5, 5, 1, 6, 2, 3>>
PoolAccounts == {PoolAccount, PoolAccountWide}
Fee == <<1, 0, 0, 0>>
FeeWide == <<1, 8, 4, 4, 6, 7, 4, 4, 0, 7, 3, 7, 0, 9, 5, 5, 2, 6, 1, 6>>
Fees == {Fee, FeeWide}
Nonce == <<4, 2>>
NonceWide == <<1, 8, 4, 4, 6, 7, 4, 4, 0, 7, 3, 7, 0, 9, 5, 5, 1, 6, 5, 8>>
Nonces == {Nonce, NonceWide}

\* the destination addresses: NumAddresses byte strings of 20 bytes, each
\* written in lower, upper and mixed case, bare and after "0x" and "0X";
\* and texts that do not decode to 20 bytes
NumAddresses == 2

AddressBytes(k) == [i \in 1..AddressLen |-> (17 * k + 29 * i * k) % 256]

HexText(bytes, case) ==
    [i \in 1..(2 * Len(bytes)) |->
        LET b == bytes[(i + 1) \div 2]
            v == IF i % 2 = 1 THEN b \div 16 ELSE b % 16
        IN  IF case = "upper" \/ (case = "mixed" /\ i % 4 < 2)
            THEN UpperHex[v + 1] ELSE HexDigits[v + 1]]

Cases == {"lower", "upper", "mixed"}
Prefixes == {<<>>, <<"0", "x">>, <<"0", "X">>}

AddressTexts ==
    { prefix \o HexText(AddressBytes(k), case) :
        k \in 1..NumAddresses, case \in Cases, prefix \in Prefixes }

Address1 == <<"0", "x">> \o HexText(AddressBytes(1), "lower")
AddressShort == <<"0", "x">> \o [i \in 1..(2 * AddressLen - 2) |-> "1"]
AddressLong == <<"0", "x">> \o [i \in 1..(2 * AddressLen + 2) |-> "1"]
AddressOdd == <<"0", "x">> \o [i \in 1..(2 * AddressLen - 1) |-> "1"]
AddressNotHex == <<"0", "x">> \o [i \in 1..(2 * AddressLen) |-> "g"]
BadAddressTexts == {AddressShort, AddressLong, AddressOdd, AddressNotHex}

\* the JSON value under 'amount': a number, written in decimal, a value
\* float() rejects, or no such key
Number(d) == [json |-> "number", value |-> d]
Amount10_5 == Number(Dec(FALSE, <<1, 0, 5>>, 1))
AmountMicro == Number(Dec(FALSE, <<1>>, 6))
AmountBelowMicro == Number(Dec(FALSE, <<1>>, 7))
AmountLarge == Number(Dec(FALSE, <<8, 5, 8, 9, 9, 3, 4, 5, 9, 2, 0, 0, 0, 0, 0, 1>>, 6))
AmountWide == Number(Dec(FALSE, <<1, 8, 4, 4, 6, 7, 4, 4, 0, 7, 3, 7, 1, 0>>, 0))
AmountZero == Number(Dec(FALSE, <<0>>, 0))
AmountNegative == Number(Dec(TRUE, <<1>>, 0))
NotANumber == [json |-> "string", value |-> Dec(FALSE, <<0>>, 0)]
NoAmount == [json |-> "absent", value |-> Dec(FALSE, <<0>>, 0)]

BodyOf(amount, to, complete, account_index, api_key_index, api_key, eth_key) ==
    [ amount |-> amount, to_address |-> to, complete |-> complete,
      account_index |-> account_index, api_key_index |-> api_key_index,
      api_key_private_key |-> api_key, eth_private_key |-> eth_key ]

Body(amount, to, complete) ==
    BodyOf(amount, to, complete, AccountIndex, ApiKeyIndex,
           "api_key_private_key", "eth_private_key")

Bodies ==
    { Body(Amount10_5, t, TRUE) : t \in AddressTexts \cup BadAddressTexts }
    \cup { Body(a, Address1, TRUE) :
             a \in {AmountMicro, AmountBelowMicro, AmountLarge,
                    NoAmount, NotANumber, AmountZero, AmountNegative} }
    \cup { Body(Amount10_5, Address1, FALSE) }
    \cup { Body(AmountWide, Address1, TRUE) }
    \cup { BodyOf(Amount10_5, Address1, TRUE, AccountIndexWide, ApiKeyIndexWide,
                   "api_key_private_key", "eth_private_key") }

\* the body of a request that never arrives
NoBody == Body(Amount10_5, Address1, TRUE)

PoolReplies ==
    { Reply("error", 0, "timeout", <<>>),
      Reply("garbage", 0, "", <<>>),
      Reply("json", 400, "pool unavailable", <<>>),
      Reply("json", 503, "pool paused", PoolAccount),
      Reply("json", 200, "", <<>>) }
    \cup { Reply("json", 200, "", a) : a \in PoolAccounts }

SubmitReplies ==
    { Reply("error", 0, "timeout", <<>>),
      Reply("garbage", 0, "", <<>>),
      Reply("json", 400, "invalid signature", <<>>),
      Reply("json", 200, "ok", <<>>) }

\* the outcomes of an SDK call: None (success) or the error it reports
SdkErrors == {None, "rejected"}

\* the exceptions Account.from_key / sign_message raise on a bad L1 key
L1Errors == {NoExc, Exc("ValueError", "bad key"), Exc("Exception", "bad key")}

\* the requests in live have arrived, each with one of its bodies; the
\* others never arrive
InitOf(live, bodies) ==
    /\ mainnet \in BOOLEAN
    /\ \E sent \in [live -> UNION {bodies[r] : r \in live}] :
         /\ \A r \in live : sent[r] \in bodies[r]
         /\ body = [r \in Requests |-> IF r \in live THEN sent[r] ELSE NoBody]
    /\ pc = [r \in Requests |-> IF r \in live THEN "received" ELSE "absent"]
    /\ loc = [r \in Requests |-> NoLocals]
    /\ calls = [r \in Requests |-> <<>>]
    /\ response = [r \in Requests |-> None]

Init == InitOf({"r1"}, [r \in {"r1"} |-> Bodies])

\* ---- withdraw: lines 191-204 and 228-231 ----

\* lines 228-231: the response to an exception raised inside withdraw
ErrorResponse(e) ==
    IF IsValueError(e)
    THEN [status |-> 400, json |-> [error |-> <<"Invalid amount: ", e.msg>>]]
    ELSE [status |-> 500, json |-> [error |-> e.msg]]

Respond(r, resp) ==
    /\ response' = [response EXCEPT ![r] = resp]
    /\ pc' = [pc EXCEPT ![r] = "done"]

\* withdraw_parse without the test of lines 197-198
withdraw_parse_unvalidated(r) ==
    /\ pc[r] = "received"
    /\ IF body[r].amount.json # "number"
       THEN Respond(r, [status |-> 400, json |-> [error |-> "Missing 'amount' parameter"]])
            /\ UNCHANGED loc
       ELSE /\ loc' = [loc EXCEPT ![r].amount = float(body[r].amount.value)]
            /\ pc' = [pc EXCEPT ![r] = "new_api_client"]
            /\ UNCHANGED response
    /\ UNCHANGED <<mainnet, body, calls>>

\* lines 192-204: parse and validate the body
withdraw_parse(r) ==
    /\ pc[r] = "received"
    /\ LET data == body[r]
       IN  IF data.amount.json = "absent"
           THEN Respond(r, [status |-> 400,
                            json |-> [error |-> "Missing 'amount' parameter"]])
                /\ UNCHANGED loc
           ELSE IF data.amount.json # "number"
           THEN Respond(r, ErrorResponse(Exc("ValueError", "could not convert")))
                /\ UNCHANGED loc
           ELSE LET amount == float(data.amount.value)
                IN  IF amount.neg \/ IsZero(amount.k)
                    THEN Respond(r, [status |-> 400,
                                     json |-> [error |-> "Amount must be positive"]])
                         /\ UNCHANGED loc
                    ELSE IF ~data.complete
                    THEN Respond(r, ErrorResponse(Exc("KeyError", "api_key_private_key")))
                         /\ UNCHANGED loc
                    ELSE /\ loc' = [loc EXCEPT ![r].amount = amount]
                         /\ pc' = [pc EXCEPT ![r] = "new_api_client"]
                         /\ UNCHANGED response
    /\ UNCHANGED <<mainnet, body, calls>>

\* ---- process_withdraw: lines 38-176 ----

\* an exception raised inside the try block (lines 49-173): control passes
\* to the finally clause
Raise(r, e) ==
    /\ loc' = [loc EXCEPT ![r].exc = e]
    /\ pc' = [pc EXCEPT ![r] = "client_close"]

\* a call to the exchange, as it is recorded in calls[r]: the endpoint, the
\* auth token passed, the arguments, whether it succeeded, and what came back
Call(api, auth, args, ok, reply) ==
    [api |-> api, auth |-> auth, args |-> args, ok |-> ok, reply |-> reply]

Issue(r, call) == calls' = [calls EXCEPT ![r] = Append(@, call)]

\* line 39
new_api_client(r) ==
    /\ pc[r] = "new_api_client"
    /\ loc' = [loc EXCEPT ![r].api_client = "open"]
    /\ pc' = [pc EXCEPT ![r] = "new_signer_client"]
    /\ UNCHANGED <<mainnet, body, calls, response>>

\* lines 40-47: the constructor may raise; the try block is not entered yet
new_signer_client(r) ==
    /\ pc[r] = "new_signer_client"
    /\ \E err \in SdkErrors :
         IF err = None
         THEN /\ loc' = [loc EXCEPT ![r].client = "open"]
              /\ pc' = [pc EXCEPT ![r] = "check_client"]
         ELSE /\ loc' = [loc EXCEPT ![r].exc = Exc("Exception", err)]
              /\ pc' = [pc EXCEPT ![r] = "respond"]
    /\ UNCHANGED <<mainnet, body, calls, response>>

\* lines 50-52
check_client(r) ==
    /\ pc[r] = "check_client"
    /\ \E err \in SdkErrors :
         /\ Issue(r, Call("apikeys", None, <<body[r].account_index, body[r].api_key_index>>,
                          err = None, err))
         /\ IF err = None
            THEN /\ pc' = [pc EXCEPT ![r] = "create_auth_token"]
                 /\ UNCHANGED loc
            ELSE Raise(r, Exc("Exception", <<"API key verification failed: ", err>>))
    /\ UNCHANGED <<mainnet, body, response>>

\* the token create_auth_token_with_expiry makes for an API key
AuthToken(r) == <<"auth", body[r].account_index, body[r].api_key_index>>

\* create_auth_token going back to the key check when the token fails
create_auth_token_recheck(r) ==
    /\ pc[r] = "create_auth_token"
    /\ \E err \in SdkErrors :
         IF err = None
         THEN /\ loc' = [loc EXCEPT ![r].auth_token = AuthToken(r)]
              /\ pc' = [pc EXCEPT ![r] = "fastwithdraw_info"]
         ELSE /\ pc' = [pc EXCEPT ![r] = "check_client"]
              /\ UNCHANGED loc
    /\ UNCHANGED <<mainnet, body, calls, response>>

\* lines 54-56
create_auth_token(r) ==
    /\ pc[r] = "create_auth_token"
    /\ \E err \in SdkErrors :
         IF err = None
         THEN /\ loc' = [loc EXCEPT ![r].auth_token = AuthToken(r)]
              /\ pc' = [pc EXCEPT ![r] = "fastwithdraw_info"]
         ELSE Raise(r, Exc("Exception", <<"Auth token failed: ", err>>))
    /\ UNCHANGED <<mainnet, body, calls, response>>

\* lines 68-72 and 167-171: what reading and parsing a reply raises
ReadError(reply) ==
    IF reply.kind = "error" THEN Exc("Exception", reply.message)
    ELSE IF reply.kind = "garbage" THEN Exc("JSONDecodeError", "Expecting value")
    ELSE NoExc

\* fastwithdraw_info asking again when no reply comes
fastwithdraw_info_retry(r) ==
    /\ pc[r] = "fastwithdraw_info"
    /\ \E reply \in PoolReplies :
         /\ Issue(r, Call("fastwithdraw/info", loc[r].auth_token,
                          <<body[r].account_index>>,
                          reply.kind = "json" /\ reply.code = 200, reply))
         /\ IF reply.kind = "error" THEN UNCHANGED <<loc, pc>>
            ELSE IF reply.kind # "json" \/ reply.code # 200 \/ reply.to_account_index = <<>>
            THEN Raise(r, Exc("Exception", "Pool info failed"))
            ELSE /\ loc' = [loc EXCEPT ![r].to_account = reply.to_account_index]
                 /\ pc' = [pc EXCEPT ![r] = "transfer_fee_info"]
    /\ UNCHANGED <<mainnet, body, response>>

\* fastwithdraw_info without the test of the code on lines 74-75
fastwithdraw_info_any_code(r) ==
    /\ pc[r] = "fastwithdraw_info"
    /\ \E reply \in PoolReplies :
         /\ Issue(r, Call("fastwithdraw/info", loc[r].auth_token,
                          <<body[r].account_index>>,
                          reply.kind = "json" /\ reply.code = 200, reply))
         /\ IF ReadError(reply) # NoExc THEN Raise(r, ReadError(reply))
            ELSE IF reply.to_account_index = <<>>
            THEN Raise(r, Exc("KeyError", "to_account_index"))
            ELSE /\ loc' = [loc EXCEPT ![r].to_account = reply.to_account_index]
                 /\ pc' = [pc EXCEPT ![r] = "transfer_fee_info"]
    /\ UNCHANGED <<mainnet, body, response>>

\* lines 58-78: GET /api/v1/fastwithdraw/info
fastwithdraw_info(r) ==
    /\ pc[r] = "fastwithdraw_info"
    /\ \E reply \in PoolReplies :
         /\ Issue(r, Call("fastwithdraw/info", loc[r].auth_token,
                          <<body[r].account_index>>,
                          reply.kind = "json" /\ reply.code = 200, reply))
         /\ IF ReadError(reply) # NoExc THEN Raise(r, ReadError(reply))
            ELSE IF reply.code # 200
            THEN Raise(r, Exc("Exception", <<"Pool info failed: ", reply.message>>))
            ELSE IF reply.to_account_index = <<>>
            THEN Raise(r, Exc("KeyError", "to_account_index"))
            ELSE /\ loc' = [loc EXCEPT ![r].to_account = reply.to_account_index]
                 /\ pc' = [pc EXCEPT ![r] = "transfer_fee_info"]
    /\ UNCHANGED <<mainnet, body, response>>

\* transfer_fee_info called without the auth argument of line 84
transfer_fee_info_no_auth(r) ==
    /\ pc[r] = "transfer_fee_info"
    /\ \E err \in SdkErrors, fee \in Fees :
         /\ Issue(r, Call("transferFeeInfo", None,
                          <<body[r].account_index, loc[r].to_account>>, err = None,
                          IF err = None THEN fee ELSE Unbound))
         /\ IF err = None
            THEN /\ loc' = [loc EXCEPT ![r].fee = fee]
                 /\ pc' = [pc EXCEPT ![r] = "next_nonce"]
            ELSE Raise(r, Exc("ApiException", err))
    /\ UNCHANGED <<mainnet, body, response>>

\* transfer_fee_info quoting the fee of a transfer back to the source account
transfer_fee_info_wrong_route(r) ==
    /\ pc[r] = "transfer_fee_info"
    /\ \E err \in SdkErrors, fee \in Fees :
         /\ Issue(r, Call("transferFeeInfo", loc[r].auth_token,
                          <<body[r].account_index, body[r].account_index>>, err = None,
                          IF err = None THEN fee ELSE Unbound))
         /\ IF err = None
            THEN /\ loc' = [loc EXCEPT ![r].fee = fee]
                 /\ pc' = [pc EXCEPT ![r] = "next_nonce"]
            ELSE Raise(r, Exc("ApiException", err))
    /\ UNCHANGED <<mainnet, body, response>>

\* lines 81-85
transfer_fee_info(r) ==
    /\ pc[r] = "transfer_fee_info"
    /\ \E err \in SdkErrors, fee \in Fees :
         /\ Issue(r, Call("transferFeeInfo", loc[r].auth_token,
                          <<body[r].account_index, loc[r].to_account>>, err = None,
                          IF err = None THEN fee ELSE Unbound))
         /\ IF err = None
            THEN /\ loc' = [loc EXCEPT ![r].fee = fee]
                 /\ pc' = [pc EXCEPT ![r] = "next_nonce"]
            ELSE Raise(r, Exc("ApiException", err))
    /\ UNCHANGED <<mainnet, body, response>>

\* next_nonce with the failure of the lookup swallowed
next_nonce_unchecked(r) ==
    /\ pc[r] = "next_nonce"
    /\ \E err \in SdkErrors, nonce \in Nonces :
         /\ Issue(r, Call("nextNonce", None,
                          <<body[r].account_index, body[r].api_key_index>>, err = None,
                          nonce))
         /\ loc' = [loc EXCEPT ![r].nonce = nonce]
         /\ pc' = [pc EXCEPT ![r] = "build_memo"]
    /\ UNCHANGED <<mainnet, body, response>>

\* next_nonce keeping the nonce in a cache shared by the requests: a nonce
\* any request has fetched is used again
next_nonce_shared(r) ==
    /\ pc[r] = "next_nonce"
    /\ IF \E q \in Requests : loc[q].nonce # Unbound
       THEN /\ loc' = [loc EXCEPT ![r].nonce =
                          loc[CHOOSE q \in Requests : loc[q].nonce # Unbound].nonce]
            /\ pc' = [pc EXCEPT ![r] = "build_memo"]
            /\ UNCHANGED calls
       ELSE \E err \in SdkErrors, nonce \in Nonces :
              /\ Issue(r, Call("nextNonce", None,
                               <<body[r].account_index, body[r].api_key_index>>,
                               err = None, IF err = None THEN nonce ELSE Unbound))
              /\ IF err = None
                 THEN /\ loc' = [loc EXCEPT ![r].nonce = nonce]
                      /\ pc' = [pc EXCEPT ![r] = "build_memo"]
                 ELSE Raise(r, Exc("ApiException", err))
    /\ UNCHANGED <<mainnet, body, response>>

\* lines 86-89: no auth argument is passed
next_nonce(r) ==
    /\ pc[r] = "next_nonce"
    /\ \E err \in SdkErrors, nonce \in Nonces :
         /\ Issue(r, Call("nextNonce", None,
                          <<body[r].account_index, body[r].api_key_index>>, err = None,
                          IF err = None THEN nonce ELSE Unbound))
         /\ IF err = None
            THEN /\ loc' = [loc EXCEPT ![r].nonce = nonce]
                 /\ pc' = [pc EXCEPT ![r] = "build_memo"]
            ELSE Raise(r, Exc("ApiException", err))
    /\ UNCHANGED <<mainnet, body, response>>

\* lines 91-96
build_memo(r) ==
    /\ pc[r] = "build_memo"
    /\ LET memo_list == memo_list_of(body[r].to_address)
       IN  IF memo_list = ValueError
           THEN Raise(r, Exc("ValueError", "Invalid address"))
           ELSE /\ loc' = [loc EXCEPT ![r].memo_list = memo_list]
                /\ pc' = [pc EXCEPT ![r] = "build_l1_msg"]
    /\ UNCHANGED <<mainnet, body, calls, response>>

\* lines 111 and 119: the chain id and asset fields of the message
chain_id_hex(is_mainnet) ==
    [i \in 1..(HexWidth - 3) |-> "0"]
        \o (IF is_mainnet THEN <<"1", "3", "0">> ELSE <<"1", "2", "c">>)

asset_hex == [i \in 1..(HexWidth - 1) |-> "0"] \o <<"3">>

\* lines 113-124: the message text, as the values of its fields; the labels,
\* the line order, the two zero route markers and the trailer are fixed text
l1_msg_of(nonce, account_index, api_key_index, to_account, usdc_int, fee, chain_id, memo_hex) ==
    [ nonce   |-> hex16(nonce),
      from    |-> hex16(account_index),
      api_key |-> hex16(api_key_index),
      to      |-> hex16(to_account),
      asset   |-> asset_hex,
      amount  |-> hex16(usdc_int),
      fee     |-> hex16(fee),
      chainId |-> chain_id,
      memo    |-> memo_hex ]

\* lines 98-124
build_l1_msg(r) ==
    /\ pc[r] = "build_l1_msg"
    /\ LET usdc_int == usdc_int_of(loc[r].amount)
       IN  /\ Evaluated(usdc_int)
           /\ loc' = [loc EXCEPT
                  ![r].usdc_int = usdc_int,
                  ![r].l1_msg = l1_msg_of(loc[r].nonce, body[r].account_index,
                                          body[r].api_key_index, loc[r].to_account,
                                          usdc_int, loc[r].fee, chain_id_hex(mainnet),
                                          memo_hex_of(loc[r].memo_list))]
    /\ pc' = [pc EXCEPT ![r] = "sign_message"]
    /\ UNCHANGED <<mainnet, body, calls, response>>

\* line 128: the personal-message signature of text by key, "0x" + hex
L1Signature(key, text) == [scheme |-> "personal_sign", key |-> key, text |-> text]

\* sign_message with its exception swallowed: no L1 signature is bound
sign_message_unchecked(r) ==
    /\ pc[r] = "sign_message"
    /\ \E e \in L1Errors :
         loc' = [loc EXCEPT ![r].l1_sig =
                     IF e = NoExc
                     THEN L1Signature(body[r].eth_private_key, loc[r].l1_msg)
                     ELSE NoRecord]
    /\ pc' = [pc EXCEPT ![r] = "sign_transfer"]
    /\ UNCHANGED <<mainnet, body, calls, response>>

\* lines 127-128
sign_message(r) ==
    /\ pc[r] = "sign_message"
    /\ \E e \in L1Errors :
         IF e = NoExc
         THEN /\ loc' = [loc EXCEPT
                     ![r].l1_sig = L1Signature(body[r].eth_private_key, loc[r].l1_msg)]
              /\ pc' = [pc EXCEPT ![r] = "sign_transfer"]
         ELSE Raise(r, e)
    /\ UNCHANGED <<mainnet, body, calls, response>>

\* json.dumps and json.loads of an object of integers, strings and lists
json_dumps(obj) == <<"json", obj>>
json_loads(text) == text[2]

\* SignerClient.sign_transfer: the transaction the SDK signs with the API
\* key, serialised; its own Memo and L1Sig are what the SDK makes of the
\* memo text and of the L1 key it was given; the API-key signature covers
\* the other fields
SignedTransfer(api_key, account_index, eth_private_key, to_account_index, asset_id, route_from, route_to, usdc_amount, fee, memo, nonce, api_key_index) ==
    LET tx == [ FromAccountIndex |-> account_index,
                ApiKeyIndex      |-> api_key_index,
                ToAccountIndex   |-> to_account_index,
                AssetIndex       |-> asset_id,
                FromRouteType    |-> route_from,
                ToRouteType      |-> route_to,
                Amount           |-> usdc_amount,
                USDCFee          |-> fee,
                Nonce            |-> nonce ]
    IN  json_dumps([ FromAccountIndex |-> tx.FromAccountIndex,
                     ApiKeyIndex      |-> tx.ApiKeyIndex,
                     ToAccountIndex   |-> tx.ToAccountIndex,
                     AssetIndex       |-> tx.AssetIndex,
                     FromRouteType    |-> tx.FromRouteType,
                     ToRouteType      |-> tx.ToRouteType,
                     Amount           |-> tx.Amount,
                     USDCFee          |-> tx.USDCFee,
                     Nonce            |-> tx.Nonce,
                     Memo             |-> memo,
                     L1Sig            |-> [scheme |-> "sdk", key |-> eth_private_key,
                                           text |-> NoRecord],
                     Sig              |-> <<"l2 sig", api_key, tx>> ])

\* lines 130-145: the SDK reports an error, or returns the transaction, or
\* returns neither (temp_tx is None, here Unbound)
sign_transfer(r) ==
    /\ pc[r] = "sign_transfer"
    /\ \E err \in SdkErrors, signed \in BOOLEAN :
         IF err = None
         THEN /\ loc' = [loc EXCEPT ![r].temp_tx =
                     IF signed
                     THEN SignedTransfer(body[r].api_key_private_key,
                                         body[r].account_index,
                                         body[r].eth_private_key, loc[r].to_account,
                                         3, 0, 0, loc[r].usdc_int, loc[r].fee,
                                         memo_hex_of(loc[r].memo_list), loc[r].nonce,
                                         body[r].api_key_index)
                     ELSE Unbound]
              /\ pc' = [pc EXCEPT ![r] = "patch"]
         ELSE Raise(r, Exc("Exception", <<"L2 signing failed: ", err>>))
    /\ UNCHANGED <<mainnet, body, calls, response>>

\* patched without line 152
patched_memo_only(temp_tx, memo_list, l1_sig) ==
    [json_loads(temp_tx) EXCEPT !.Memo = memo_list]

\* lines 150-152
patched(temp_tx, memo_list, l1_sig) ==
    [json_loads(temp_tx) EXCEPT !.Memo = memo_list, !.L1Sig = l1_sig]

\* lines 147-152
patch(r) ==
    /\ pc[r] = "patch"
    /\ IF loc[r].temp_tx = Unbound
       THEN Raise(r, Exc("AssertionError", ""))
       ELSE /\ loc' = [loc EXCEPT ![r].tx_info =
                          patched(loc[r].temp_tx, loc[r].memo_list, loc[r].l1_sig)]
            /\ pc' = [pc EXCEPT ![r] = "fastwithdraw"]
    /\ UNCHANGED <<mainnet, body, calls, response>>

\* lines 154-173: POST /api/v1/fastwithdraw; the parsed reply is returned
fastwithdraw(r) ==
    /\ pc[r] = "fastwithdraw"
    /\ \E reply \in SubmitReplies :
         /\ Issue(r, Call("fastwithdraw", loc[r].auth_token,
                          <<json_dumps(loc[r].tx_info), body[r].to_address>>,
                          reply.kind = "json" /\ reply.code = 200, reply))
         /\ IF ReadError(reply) # NoExc THEN Raise(r, ReadError(reply))
            ELSE /\ loc' = [loc EXCEPT ![r].result =
                                [code |-> reply.code, message |-> reply.message]]
                 /\ pc' = [pc EXCEPT ![r] = "client_close"]
    /\ UNCHANGED <<mainnet, body, response>>

\* line 175, in the finally clause: an exception raised by close replaces the
\* pending exception or the return value and skips line 176
client_close(r) ==
    /\ pc[r] = "client_close"
    /\ \E err \in SdkErrors :
         IF err = None
         THEN /\ loc' = [loc EXCEPT ![r].client = "closed"]
              /\ pc' = [pc EXCEPT ![r] = "api_client_close"]
         ELSE /\ loc' = [loc EXCEPT ![r].exc = Exc("Exception", err)]
              /\ pc' = [pc EXCEPT ![r] = "respond"]
    /\ UNCHANGED <<mainnet, body, calls, response>>

\* line 176
api_client_close(r) ==
    /\ pc[r] = "api_client_close"
    /\ \E err \in SdkErrors :
         IF err = None
         THEN loc' = [loc EXCEPT ![r].api_client = "closed"]
         ELSE loc' = [loc EXCEPT ![r].exc = Exc("Exception", err)]
    /\ pc' = [pc EXCEPT ![r] = "respond"]
    /\ UNCHANGED <<mainnet, body, calls, response>>

\* lines 216-231: process_withdraw has returned or raised
withdraw_respond(r) ==
    /\ pc[r] = "respond"
    /\ IF loc[r].exc = NoExc
       THEN Respond(r, [status |-> 200, json |-> loc[r].result])
       ELSE Respond(r, ErrorResponse(loc[r].exc))
    /\ UNCHANGED <<mainnet, body, loc, calls>>

Next ==
    \E r \in Requests :
        \/ withdraw_parse(r)
        \/ new_api_client(r)
        \/ new_signer_client(r)
        \/ check_client(r)
        \/ create_auth_token(r)
        \/ fastwithdraw_info(r)
        \/ transfer_fee_info(r)
        \/ next_nonce(r)
        \/ build_memo(r)
        \/ build_l1_msg(r)
        \/ sign_message(r)
        \/ sign_transfer(r)
        \/ patch(r)
        \/ fastwithdraw(r)
        \/ client_close(r)
        \/ api_client_close(r)
        \/ withdraw_respond(r)

Spec == Init /\ [][Next]_vars

\* two requests handled at the same time (the server is threaded, and each
\* request runs process_withdraw on an event loop of its own, lines 212-216):
\* r2 differs from r1 in every field, or in the destination address only
Address2 == HexText(AddressBytes(2), "upper")

ConcurrentBodies ==
    [r \in Requests |->
        IF r = "r1"
        THEN { Body(Amount10_5, Address1, TRUE) }
        ELSE { BodyOf(AmountMicro, Address2, TRUE, AccountIndexWide, ApiKeyIndexWide,
                      "api_key_private_key_2", "eth_private_key_2"),
               Body(Amount10_5, Address2, TRUE) }]

InitConcurrent == InitOf(Requests, ConcurrentBodies)

\* what the exchange holds for a source account: its pool account, the fee
\* of the transfer and the next nonce
Books(account_index) ==
    IF account_index = AccountIndex
    THEN [pool |-> PoolAccount, fee |-> Fee, nonce |-> Nonce]
    ELSE [pool |-> PoolAccountWide, fee |-> FeeWide, nonce |-> NonceWide]

\* request r has met no failure so far, and the exchange has answered its
\* reads from the books of its source account
Served(r) ==
    /\ loc[r].exc = NoExc
    /\ pc[r] = "patch" => loc[r].temp_tx # Unbound
    /\ \A i \in DOMAIN calls[r] :
         LET call == calls[r][i]
             books == Books(body[r].account_index)
         IN  IF call.api = "fastwithdraw/info"
             THEN call.reply = Reply("json", 200, "", books.pool)
             ELSE IF call.api = "transferFeeInfo" THEN call.reply = books.fee
             ELSE IF call.api = "nextNonce" THEN call.reply = books.nonce
             ELSE TRUE

\* the steps of the two requests, interleaved in every order, while the
\* exchange and the SDK serve both
NextConcurrent ==
    \E r \in Requests :
        \/ withdraw_parse(r) /\ Served(r)'
        \/ new_api_client(r) /\ Served(r)'
        \/ new_signer_client(r) /\ Served(r)'
        \/ check_client(r) /\ Served(r)'
        \/ create_auth_token(r) /\ Served(r)'
        \/ fastwithdraw_info(r) /\ Served(r)'
        \/ transfer_fee_info(r) /\ Served(r)'
        \/ next_nonce(r) /\ Served(r)'
        \/ build_memo(r) /\ Served(r)'
        \/ build_l1_msg(r) /\ Served(r)'
        \/ sign_message(r) /\ Served(r)'
        \/ sign_transfer(r) /\ Served(r)'
        \/ patch(r) /\ Served(r)'
        \/ fastwithdraw(r) /\ Served(r)'
        \/ client_close(r) /\ Served(r)'
        \/ api_client_close(r) /\ Served(r)'
        \/ withdraw_respond(r) /\ Served(r)'

SpecConcurrent == InitConcurrent /\ [][NextConcurrent]_vars

(* ------------------------------------------------------------------ *)
(* Properties                                                          *)
(* ------------------------------------------------------------------ *)

Done(r) == pc[r] = "done"

Calls(r, api) == {i \in DOMAIN calls[r] : calls[r][i].api = api}

Submitted(r) == Calls(r, "fastwithdraw") # {}

Failed(r, api) == \E i \in Calls(r, api) : ~calls[r][i].ok
Succeeded(r, api) == \E i \in Calls(r, api) : calls[r][i].ok

ReadApis == {"apikeys", "fastwithdraw/info", "transferFeeInfo", "nextNonce"}
RemoteApis == ReadApis \cup {"fastwithdraw"}

\* C1: when the fee lookup or the nonce lookup fails, the submission POST is
\* never issued for the request, and the calls made are the read calls
\* issued up to the failure: the failed lookup is the last call of the request
C1_NoSubmitAfterQuoteFailure ==
    \A r \in Requests : \A i \in DOMAIN calls[r] :
        (calls[r][i].api \in {"transferFeeInfo", "nextNonce"} /\ ~calls[r][i].ok)
        => /\ ~Submitted(r)
           /\ i = Len(calls[r])
           /\ \A j \in 1..i : calls[r][j].api \in ReadApis

C1_Witness ==
    \E r \in Requests :
        /\ Done(r)
        /\ Failed(r, "nextNonce")
        /\ Succeeded(r, "transferFeeInfo")
        /\ response[r].status = 500

\* every step before the submission has succeeded
EarlierStepsSucceeded(r) ==
    /\ \A api \in ReadApis : Succeeded(r, api) /\ ~Failed(r, api)
    /\ loc[r].auth_token # Unbound
    /\ loc[r].to_account # Unbound
    /\ loc[r].fee # Unbound
    /\ loc[r].nonce # Unbound
    /\ loc[r].memo_list # Unbound
    /\ loc[r].l1_sig # NoRecord
    /\ loc[r].temp_tx # Unbound
    /\ loc[r].tx_info # NoRecord

\* C2: the submission POST is issued at most once per request, it is the
\* last remote call of the request, and it is issued only when every earlier
\* step (authentication, pool, quote, memo, L1 signing, L2 signing, patch)
\* has succeeded
C2_SubmitIsLast ==
    \A r \in Requests :
        /\ Cardinality(Calls(r, "fastwithdraw")) <= 1
        /\ \A i \in Calls(r, "fastwithdraw") : i = Len(calls[r])
        /\ Submitted(r) => EarlierStepsSucceeded(r)

C2_Witness ==
    \E r \in Requests :
        /\ Done(r)
        /\ Succeeded(r, "fastwithdraw")
        /\ Len(calls[r]) = 5
        /\ response[r].status = 200

\* C3: each remote call is issued at most once per request, and no remote
\* call follows a remote call that failed
C3_SingleShot ==
    \A r \in Requests :
        /\ \A api \in RemoteApis : Cardinality(Calls(r, api)) <= 1
        /\ \A i \in DOMAIN calls[r] : ~calls[r][i].ok => i = Len(calls[r])

C3_Witness ==
    \E r \in Requests :
        /\ Done(r)
        /\ Failed(r, "fastwithdraw/info")
        /\ Len(calls[r]) = 2

\* C4: when a request ends, the SignerClient and the ApiClient created for
\* it are both closed
C4_BothClientsClosed ==
    \A r \in Requests :
        Done(r) => /\ loc[r].api_client \in {None, "closed"}
                   /\ loc[r].client \in {None, "closed"}

\* C5: when the exchange answers the submission with a non-success response
\* (and both clients are closed without error), POST /withdraw answers HTTP
\* 500 with the exchange's message
C5_RejectedSubmissionIs500 ==
    \A r \in Requests :
        ( /\ Done(r)
          /\ loc[r].result # NoRecord
          /\ loc[r].result.code # 200
          /\ loc[r].client = "closed"
          /\ loc[r].api_client = "closed" )
        => /\ response[r].status = 500
           /\ response[r].json = [error |-> loc[r].result.message]

\* C6: a request in which a remote call failed ends with HTTP 500
C6_RemoteFailureIs500 ==
    \A r \in Requests :
        (Done(r) /\ \E api \in RemoteApis : Failed(r, api))
        => response[r].status = 500

BadAddress(r) == body[r].to_address \in BadAddressTexts

MemoStepDone(r) == Succeeded(r, "nextNonce") /\ pc[r] # "build_memo"

\* C8: for every 20-byte address and every case and prefix variant of its
\* hex text, the memo built is 32 bytes: the address bytes, then 12 zeros
C8_MemoOfVariants ==
    \A r \in Requests : \A k \in 1..NumAddresses, case \in Cases, prefix \in Prefixes :
        (body[r].to_address = prefix \o HexText(AddressBytes(k), case) /\ MemoStepDone(r))
        => /\ Len(loc[r].memo_list) = 32
           /\ SubSeq(loc[r].memo_list, 1, 20) = AddressBytes(k)
           /\ \A i \in 21..32 : loc[r].memo_list[i] = 0

C8_Witness ==
    \E r \in Requests :
        /\ body[r].to_address = <<"0", "X">> \o HexText(AddressBytes(2), "mixed")
        /\ MemoStepDone(r)
        /\ loc[r].memo_list = AddressBytes(2) \o Zeros(12)

\* C9: the payload submitted is the provisional L2-signed transaction with
\* exactly Memo and L1Sig overwritten: Memo is the 32-byte memo as a byte
\* list, L1Sig the L1 signature of the canonical message, and every other
\* field, the L2 signature included, is the provisional transaction's
C9_PatchFrame ==
    \A r \in Requests : \A i \in Calls(r, "fastwithdraw") :
        LET sent == json_loads(calls[r][i].args[1])
            provisional == json_loads(loc[r].temp_tx)
        IN  /\ DOMAIN sent = DOMAIN provisional
            /\ sent.Memo = loc[r].memo_list
            /\ Len(sent.Memo) = 32
            /\ sent.L1Sig = L1Signature(body[r].eth_private_key, loc[r].l1_msg)
            /\ \A f \in DOMAIN provisional \ {"Memo", "L1Sig"} : sent[f] = provisional[f]

C9_Witness ==
    \E r \in Requests :
        /\ Submitted(r)
        /\ json_loads(calls[r][Len(calls[r])].args[1]).Memo # json_loads(loc[r].temp_tx).Memo
        /\ json_loads(calls[r][Len(calls[r])].args[1]).Sig = json_loads(loc[r].temp_tx).Sig

\* C10: for an amount with at most 6 fractional digits the integer of minor
\* units is amount * 10^6 exactly
C10_ExactMinorUnits ==
    \A r \in Requests :
        (loc[r].usdc_int # Unbound /\ body[r].amount.value.scale <= 6)
        => loc[r].usdc_int = Shift10(body[r].amount.value.coef,
                                     6 - body[r].amount.value.scale)

\* the amount of request r is missing, zero or negative
AmountNotPositive(r) ==
    \/ body[r].amount.json = "absent"
    \/ /\ body[r].amount.json = "number"
       /\ body[r].amount.value.neg \/ IsZero(body[r].amount.value.coef)

\* C11: a request whose amount is missing, zero or negative is answered
\* HTTP 400, and at no time is a client created, a token obtained, a remote
\* call issued or a signature made for it
C11_NotPositiveRejectedFirst ==
    \A r \in Requests :
        AmountNotPositive(r)
        => /\ loc[r].api_client = None
           /\ loc[r].client = None
           /\ loc[r].auth_token = Unbound
           /\ calls[r] = <<>>
           /\ loc[r].l1_sig = NoRecord
           /\ loc[r].temp_tx = Unbound
           /\ Done(r) => response[r].status = 400
           /\ pc[r] \in {"received", "done"}

C11_Witness ==
    \E r \in Requests :
        /\ Done(r)
        /\ body[r].amount = AmountNegative
        /\ response[r].status = 400

\* what the calls of request r to the endpoint `api` returned
OwnReplies(r, api) == {calls[r][i].reply : i \in Calls(r, api)}

\* C12: under every interleaving of two requests, the payload a request
\* submits is built from that request's body and from the replies to that
\* request's own pool, fee and nonce calls, and is sent with its own token:
\* the nonce, fee and destination account are the ones its own calls
\* returned, the amount, memo and destination address are those of its own
\* body, and the L1 signature is made with its own key over the message of
\* these values
C12_OwnInputsOnly ==
    \A r \in Requests : \A i \in Calls(r, "fastwithdraw") :
        LET sent == json_loads(calls[r][i].args[1])
            amount == body[r].amount.value
        IN  /\ loc[r].client # None /\ loc[r].api_client # None
            /\ AuthToken(r) = calls[r][i].auth
            /\ calls[r][i].args[2] = body[r].to_address
            /\ sent.FromAccountIndex = body[r].account_index
            /\ sent.ApiKeyIndex = body[r].api_key_index
            /\ OwnReplies(r, "nextNonce") = {sent.Nonce}
            /\ OwnReplies(r, "transferFeeInfo") = {sent.USDCFee}
            /\ {reply.to_account_index : reply \in OwnReplies(r, "fastwithdraw/info")}
                   = {sent.ToAccountIndex}
            /\ sent.Amount = Shift10(amount.coef, 6 - amount.scale)
            /\ sent.Memo = memo_list_of(body[r].to_address)
            /\ sent.L1Sig =
                 L1Signature(body[r].eth_private_key,
                     l1_msg_of(sent.Nonce, body[r].account_index, body[r].api_key_index,
                               sent.ToAccountIndex, sent.Amount, sent.USDCFee,
                               chain_id_hex(mainnet), memo_hex_of(sent.Memo)))
            /\ sent.Sig[2] = body[r].api_key_private_key

\* both requests are in flight after submitting, with payloads that differ
\* in nonce, fee, destination account, amount and memo
C12_Witness ==
    \E r, q \in Requests :
        /\ pc[r] = "client_close" /\ pc[q] = "client_close"
        /\ Submitted(r) /\ Submitted(q)
        /\ loc[r].tx_info.Nonce # loc[q].tx_info.Nonce
        /\ loc[r].tx_info.USDCFee # loc[q].tx_info.USDCFee
        /\ loc[r].tx_info.ToAccountIndex # loc[q].tx_info.ToAccountIndex
        /\ loc[r].tx_info.Amount # loc[q].tx_info.Amount
        /\ loc[r].tx_info.Memo # loc[q].tx_info.Memo

\* the places of withdraw and process_withdraw in the order of the code, and
\* among them the steps of a withdrawal: authenticate (check_client,
\* create_auth_token), resolve pool (fastwithdraw_info), quote
\* (transfer_fee_info, next_nonce), build memo and message (build_memo,
\* build_l1_msg), sign L1, sign L2, patch, submit
PcOrder ==
    << "received", "new_api_client", "new_signer_client", "check_client",
       "create_auth_token", "fastwithdraw_info", "transfer_fee_info", "next_nonce",
       "build_memo", "build_l1_msg", "sign_message", "sign_transfer", "patch",
       "fastwithdraw", "client_close", "api_client_close", "respond", "done" >>

Rank(p) == IF p = "absent" THEN 0 ELSE CHOOSE k \in DOMAIN PcOrder : PcOrder[k] = p

Steps == {PcOrder[k] : k \in Rank("check_client")..Rank("fastwithdraw")}

\* C13: the steps occur in the fixed order: a request enters a step only
\* from the step just before it and without an exception pending, it only
\* moves forward, and it never runs a step without leaving it, so no step
\* is entered a second time
C13_FixedOrder ==
    [][\A r \in Requests :
          /\ pc'[r] = pc[r] => (loc'[r] = loc[r] /\ calls'[r] = calls[r])
          /\ pc'[r] # pc[r] => Rank(pc'[r]) > Rank(pc[r])
          /\ (pc'[r] # pc[r] /\ pc'[r] \in Steps)
               => (Rank(pc'[r]) = Rank(pc[r]) + 1 /\ loc'[r].exc = NoExc)]_vars

\* a withdrawal that went through every step and was submitted
C13_Witness ==
    \E r \in Requests :
        /\ pc[r] = "client_close" /\ loc[r].exc = NoExc
        /\ [i \in DOMAIN calls[r] |-> calls[r][i].api]
             = <<"apikeys", "fastwithdraw/info", "transferFeeInfo", "nextNonce",
                 "fastwithdraw">>
        /\ \A i \in DOMAIN calls[r] : calls[r][i].api # "fastwithdraw" => calls[r][i].ok
        /\ loc[r].memo_list # Unbound /\ loc[r].l1_msg # NoRecord
        /\ loc[r].l1_sig # NoRecord /\ loc[r].temp_tx # Unbound
        /\ loc[r].tx_info # NoRecord

\* the pool call of request r was answered with a JSON object whose code is
\* not 200
PoolRefused(r) ==
    \E i \in Calls(r, "fastwithdraw/info") :
        calls[r][i].reply.kind = "json" /\ calls[r][i].reply.code # 200

\* C14: when the pool info reply has a code other than 200, the withdrawal
\* fails at the pool step: the pool call is the last call of the request, no
\* fee, nonce, memo, message, signature or transaction is made, nothing is
\* submitted, and control passes to the finally clause with the
\* "Pool info failed" exception
C14_PoolRefusalStops ==
    \A r \in Requests :
        PoolRefused(r)
        => /\ calls[r][Len(calls[r])].api = "fastwithdraw/info"
           /\ Calls(r, "transferFeeInfo") = {} /\ Calls(r, "nextNonce") = {}
           /\ ~Submitted(r)
           /\ loc[r].to_account = Unbound /\ loc[r].fee = Unbound
           /\ loc[r].nonce = Unbound /\ loc[r].memo_list = Unbound
           /\ loc[r].l1_msg = NoRecord /\ loc[r].l1_sig = NoRecord
           /\ loc[r].temp_tx = Unbound /\ loc[r].tx_info = NoRecord
           /\ pc[r] \in {"client_close", "api_client_close", "respond", "done"}
           /\ pc[r] = "client_close" => loc[r].exc.type = "Exception"
           /\ Done(r) => response[r].status = 500

\* a request refused by a pool reply that nevertheless names a pool account
C14_Witness ==
    \E r \in Requests :
        /\ Done(r) /\ PoolRefused(r)
        /\ \E i \in Calls(r, "fastwithdraw/info") :
             calls[r][i].reply = Reply("json", 503, "pool paused", PoolAccount)

\* the calls of a withdrawal made after the authenticate step
WithdrawalApis == {"fastwithdraw/info", "transferFeeInfo", "nextNonce", "fastwithdraw"}

\* none of the calls of a withdrawal is issued while the request holds no
\* auth token, which is so after a failed key check or token creation
NoCallWithoutToken ==
    \A r \in Requests :
        loc[r].auth_token = Unbound
        => \A i \in DOMAIN calls[r] : calls[r][i].api \notin WithdrawalApis

C16_PlaceholderMemo ==
    \A r, q \in Requests :
        ( /\ loc[r].temp_tx # Unbound /\ loc[q].temp_tx # Unbound
          /\ body[r].to_address # body[q].to_address
          /\ [body[r] EXCEPT !.to_address = body[q].to_address] = body[q] )
        => /\ json_loads(loc[r].temp_tx).Memo = json_loads(loc[q].temp_tx).Memo
           /\ json_loads(loc[r].temp_tx).Memo # memo_hex_of(loc[r].memo_list)

\* C17: for a request that reached L2 signing, the fee was quoted for the
\* route from its source account to the pool account its own pool call
\* returned, and the nonce for its source account and API key index; the
\* message and the L2-signed transaction name that same source account,
\* pool account and API key index, and the nonce and fee they carry are the
\* values the two quotes returned
C17_QuotesMatchSigning ==
    \A r \in Requests :
        loc[r].temp_tx # Unbound
        => \E p \in Calls(r, "fastwithdraw/info"), f \in Calls(r, "transferFeeInfo"), n \in Calls(r, "nextNonce") :
             LET to_account == calls[r][p].reply.to_account_index
                 fee == calls[r][f].reply
                 nonce == calls[r][n].reply
                 tx == json_loads(loc[r].temp_tx)
                 msg == loc[r].l1_msg
             IN  /\ p < f /\ f < n
                 /\ calls[r][f].args = <<body[r].account_index, to_account>>
                 /\ calls[r][n].args = <<body[r].account_index, body[r].api_key_index>>
                 /\ msg.from = hex16(body[r].account_index)
                 /\ msg.api_key = hex16(body[r].api_key_index)
                 /\ msg.to = hex16(to_account)
                 /\ msg.nonce = hex16(nonce)
                 /\ msg.fee = hex16(fee)
                 /\ tx.FromAccountIndex = body[r].account_index
                 /\ tx.ApiKeyIndex = body[r].api_key_index
                 /\ tx.ToAccountIndex = to_account
                 /\ tx.Nonce = nonce
                 /\ tx.USDCFee = fee

\* a request past L2 signing whose pool account and nonce are the wide ones
C17_Witness ==
    \E r \in Requests :
        /\ pc[r] = "patch" /\ loc[r].temp_tx # Unbound
        /\ json_loads(loc[r].temp_tx).ToAccountIndex = PoolAccountWide
        /\ json_loads(loc[r].temp_tx).Nonce = NonceWide
        /\ json_loads(loc[r].temp_tx).USDCFee = Fee

\* a - b for a >= b, digit by digit from the units with a borrow
RECURSIVE SubFrom(_, _, _, _, _)
SubFrom(a, b, i, borrow, acc) ==
    IF i > Len(a) THEN Norm(acc)
    ELSE LET d == DigitAt(a, i) - DigitAt(b, i) - borrow
         IN  SubFrom(a, b, i + 1, IF d < 0 THEN 1 ELSE 0, <<(d + 10) % 10>> \o acc)

BigSub(a, b) == SubFrom(a, b, 1, 0, <<>>)

\* v mod 2^64
RECURSIVE Mod64(_)
Mod64(v) == IF BigLt(v, Two64) THEN v ELSE Mod64(BigSub(v, Two64))

\* a + d for 0 <= d < 20: the units digit, and a carry of at most 2
AddSmall(a, d) ==
    IF ~Evaluated(a) THEN a
    ELSE IF a[Len(a)] + d < 10 THEN [a EXCEPT ![Len(a)] = @ + d]
    ELSE IF a[Len(a)] + d < 20 THEN Inc(Drop10(a, 1)) \o <<(a[Len(a)] + d) % 10>>
    ELSE Inc(Inc(Drop10(a, 1))) \o <<(a[Len(a)] + d) % 10>>

\* the number a hexadecimal text writes
RECURSIVE HexValueFrom(_, _, _)
HexValueFrom(text, i, acc) ==
    IF ~Evaluated(acc) \/ i > Len(text) THEN acc
    ELSE HexValueFrom(text, i + 1, AddSmall(Double4(acc), HexVal(text[i])))

HexValue(text) == HexValueFrom(text, 1, <<0>>)

\* lines 113-121: the values the numeric fields of the message render
NumericFields(r) ==
    [ nonce |-> loc[r].nonce, from |-> body[r].account_index,
      api_key |-> body[r].api_key_index, to |-> loc[r].to_account,
      amount |-> loc[r].usdc_int, fee |-> loc[r].fee ]

\* C18: when the message has been built, each of its numeric fields (nonce,
\* from, api key, to, amount, fee) is 16 hexadecimal digits that write the
\* value reduced modulo 2^64, a number below 2^64; a value of 2^64 or more
\* is rendered as its remainder is
C18_FieldsModulo64 ==
    \A r \in Requests :
        pc[r] = "sign_message"
        => \A f \in DOMAIN NumericFields(r) :
             /\ Len(loc[r].l1_msg[f]) = HexWidth
             /\ \A i \in 1..HexWidth : IsHexChar(loc[r].l1_msg[f][i])
             /\ HexValue(loc[r].l1_msg[f]) = Mod64(NumericFields(r)[f])
             /\ BigLt(HexValue(loc[r].l1_msg[f]), Two64)
             /\ loc[r].l1_msg[f] = hex16(Mod64(NumericFields(r)[f]))

\* a message whose nonce, fee and pool account are 2^64 or more
C18_Witness ==
    \E r \in Requests :
        /\ pc[r] = "sign_message"
        /\ ~BigLt(loc[r].nonce, Two64) /\ ~BigLt(loc[r].fee, Two64)
        /\ ~BigLt(loc[r].to_account, Two64)
        /\ loc[r].l1_msg.nonce = hex16(Nonce)
        /\ loc[r].l1_msg.fee = hex16(Fee)
        /\ loc[r].l1_msg.to = hex16(PoolAccount)

\* C19: for a request that reached submission, the message signed with the
\* L1 key and the transaction signed by the L2 primitive name the same
\* transfer: the numbers the message encodes for nonce, source account, API
\* key index, destination account, amount and fee are the values given to
\* the L2 signing primitive, whatever their size
C19_SameTransfer ==
    \A r \in Requests :
        Submitted(r)
        => LET msg == loc[r].l1_sig.text
               tx == json_loads(loc[r].temp_tx)
           IN  /\ HexValue(msg.nonce) = tx.Nonce
               /\ HexValue(msg.from) = tx.FromAccountIndex
               /\ HexValue(msg.api_key) = tx.ApiKeyIndex
               /\ HexValue(msg.to) = tx.ToAccountIndex
               /\ HexValue(msg.amount) = tx.Amount
               /\ HexValue(msg.fee) = tx.USDCFee

\* C20: for a request that passed the amount validation and reached
\* signing, the integer of minor units in the message, in the L2-signed
\* transaction and in the submitted payload is strictly positive
C20_SignedAmountPositive ==
    \A r \in Requests :
        /\ loc[r].l1_sig # NoRecord => ~IsZero(HexValue(loc[r].l1_sig.text.amount))
        /\ loc[r].temp_tx # Unbound => ~IsZero(json_loads(loc[r].temp_tx).Amount)
        /\ \A i \in Calls(r, "fastwithdraw") :
             ~IsZero(json_loads(calls[r][i].args[1]).Amount)

====
